---- MODULE Spec2Model ----
(***************************************************************************)
(* A model of src/fake_jobs.py: the pagination walker, the bounded-retry   *)
(* detail fetcher, the enrichment loop and the DataFrame clean-up of       *)
(* main(), together with the two markup parsers.                           *)
(*                                                                         *)
(* Strings are sequences of one-character strings, so that strip(),        *)
(* lower(), startswith(), split() and urljoin() are computed and not       *)
(* assumed.  Markup is modelled by what the selectors of the parsers see   *)
(* of it: which elements are present, which attributes they have and the   *)
(* text nodes they hold.                                                   *)
(***************************************************************************)
EXTENDS Integers, Sequences, FiniteSets, TLC

(***************************************************************************)
(* Bounds of the model.                                                    *)
(***************************************************************************)
\* list-page navigations after which the walker is no longer followed
MaxNav == 2
\* job cards the walker may accumulate over a run
MaxJobs == 3
\* rows of a table given to the cleaning of lines 182-185 on its own
MaxRows == 3

(***************************************************************************)
(* CONFIG (lines 18-23).                                                   *)
(***************************************************************************)
\* "https://realpython.github.io/fake-jobs/", abbreviated; it ends in "/"
BASE_URL == <<"h", ":", "/">>
RETRY_ATTEMPTS == 3

(***************************************************************************)
(* Strings.                                                                *)
(***************************************************************************)
\* the sentinel written by df.replace
NA == <<"N", "/", "A">>

IsSpace(c) == c \in {" ", "\t", "\n"}

\* str.strip(): whitespace removed at both ends
RECURSIVE LStrip(_)
LStrip(s) ==
    IF s = <<>> THEN <<>>
    ELSE IF IsSpace(Head(s)) THEN LStrip(Tail(s))
    ELSE s

RECURSIVE RStrip(_)
RStrip(s) ==
    IF s = <<>> THEN <<>>
    ELSE IF IsSpace(s[Len(s)]) THEN RStrip(SubSeq(s, 1, Len(s) - 1))
    ELSE s

Strip(s) == RStrip(LStrip(s))

\* str.lower() on the letters of the model's alphabet
LowerChar(c) ==
    CASE c = "L" -> "l"
      [] c = "O" -> "o"
      [] c = "C" -> "c"
      [] c = "A" -> "a"
      [] c = "T" -> "t"
      [] c = "I" -> "i"
      [] c = "N" -> "n"
      [] c = "R" -> "r"
      [] OTHER -> c

Lower(s) == [i \in 1..Len(s) |-> LowerChar(s[i])]

\* str.startswith(prefix)
StartsWith(s, prefix) ==
    /\ Len(s) >= Len(prefix)
    /\ SubSeq(s, 1, Len(prefix)) = prefix

\* variant: s.rsplit(sep, 1)[1]
RECURSIVE AfterLast(_, _)
AfterLast(s, sep) ==
    IF s = <<>> THEN <<>>
    ELSE IF s[Len(s)] = sep THEN <<>>
    ELSE Append(AfterLast(SubSeq(s, 1, Len(s) - 1), sep), s[Len(s)])

\* s.split(sep, 1)[1] for a one-character sep that occurs in s
RECURSIVE AfterFirst(_, _)
AfterFirst(s, sep) ==
    IF s = <<>> THEN <<>>
    ELSE IF Head(s) = sep THEN Tail(s)
    ELSE AfterFirst(Tail(s), sep)

\* Tag.get_text(separator, strip=True): every text node is stripped, the
\* nodes that are empty after it are dropped, the rest is joined
RECURSIVE GetText(_, _)
GetText(sep, nodes) ==
    IF nodes = <<>> THEN <<>>
    ELSE LET h == Strip(Head(nodes))
             r == GetText(sep, Tail(nodes))
         IN  IF h = <<>> THEN r
             ELSE IF r = <<>> THEN h
             ELSE h \o sep \o r

\* urllib.parse.urljoin(base, ref) for a base that ends in "/" and a ref
\* that is empty or a relative path (no scheme, no leading "/", no dot
\* segment, no query or fragment): the ref is appended to the base, an
\* empty ref gives the base itself
urljoin(base, ref) == IF ref = <<>> THEN base ELSE base \o ref

(***************************************************************************)
(* Markup, as the selectors see it.                                        *)
(*                                                                         *)
(* A text element is [has, nodes]: whether the selector matches and the    *)
(* text nodes of the match.  An attribute element is [has, attr, val]:     *)
(* whether the selector matches, whether the match has the attribute, and  *)
(* the attribute's raw value.                                              *)
(***************************************************************************)
TextEl(nodes) == [has |-> TRUE, nodes |-> nodes]
NoTextEl == [has |-> FALSE, nodes |-> <<>>]
AttrEl(val) == [has |-> TRUE, attr |-> TRUE, val |-> val]
BareEl == [has |-> TRUE, attr |-> FALSE, val |-> <<>>]
NoAttrEl == [has |-> FALSE, attr |-> FALSE, val |-> <<>>]

\* the keys of a job dict of parse_jobs_from_page, and of a details dict
SummaryKeys == {"Job Title", "Company Name", "Job Detail URL", "Date Posted", "Logo URL"}
DetailKeys == {"Location", "Job Description"}
\* the columns of the DataFrame, in their order
Columns == <<"Job Title", "Company Name", "Location", "Date Posted",
             "Logo URL", "Job Detail URL", "Job Description">>
ColumnSet == {Columns[i] : i \in 1..Len(Columns)}

\* card.find_next("a", string="Apply"): the first Apply link that follows
\* the start of card i in document order, which is the card's own link
\* when it has one and otherwise the link of the first later card with one
RECURSIVE find_next_apply(_, _)
find_next_apply(cards, i) ==
    IF i > Len(cards) THEN NoAttrEl
    ELSE IF cards[i].apply.has THEN cards[i].apply
    ELSE find_next_apply(cards, i + 1)

\* the dict appended for card i (lines 37-55)
parse_card(cards, i) ==
    LET card == cards[i]
        title_el == card.title
        company_el == card.company
        date_el == card.date
        logo_el == card.logo
        link_el == find_next_apply(cards, i)
        title == IF title_el.has THEN GetText(<<>>, title_el.nodes) ELSE <<>>
        company == IF company_el.has THEN GetText(<<>>, company_el.nodes) ELSE <<>>
        date_posted == IF date_el.has /\ date_el.attr THEN Strip(date_el.val) ELSE <<>>
        logo == IF logo_el.has /\ logo_el.attr THEN Strip(logo_el.val) ELSE <<>>
        detail_href == IF link_el.has /\ link_el.attr THEN Strip(link_el.val) ELSE <<>>
    IN  [k \in SummaryKeys |->
            CASE k = "Job Title" -> title
              [] k = "Company Name" -> company
              [] k = "Job Detail URL" ->
                    IF detail_href # <<>> THEN urljoin(BASE_URL, detail_href) ELSE <<>>
              [] k = "Date Posted" -> date_posted
              [] k = "Logo URL" ->
                    IF logo # <<>> THEN urljoin(BASE_URL, logo) ELSE <<>>]

\* parse_jobs_from_page(html), html given by its div.card-content matches
parse_jobs_from_page(cards) == [i \in 1..Len(cards) |-> parse_card(cards, i)]

(***************************************************************************)
(* The markup of a detail page: None (no markup), the empty string, or a   *)
(* document with its p#location and its first div.box p.                   *)
(***************************************************************************)
None == [null |-> TRUE, empty |-> FALSE, location |-> NoTextEl, desc |-> NoTextEl]
EmptyHtml == [null |-> FALSE, empty |-> TRUE, location |-> NoTextEl, desc |-> NoTextEl]
DetailDoc(location_el, desc_el) ==
    [null |-> FALSE, empty |-> FALSE, location |-> location_el, desc |-> desc_el]

DefaultDetails == [k \in DetailKeys |-> <<>>]

LocationLabel == <<"l", "o", "c", "a", "t", "i", "o", "n", ":">>

\* parse_job_details(html) (lines 59-74)
parse_job_details(html) ==
    IF html.null \/ html.empty THEN DefaultDetails
    ELSE LET location_el == html.location
             desc_el == html.desc
             text == IF location_el.has THEN GetText(<<" ">>, location_el.nodes) ELSE <<>>
             location == IF StartsWith(Lower(text), LocationLabel)
                         THEN Strip(AfterFirst(text, ":"))
                         ELSE text
             description == IF desc_el.has THEN GetText(<<" ">>, desc_el.nodes) ELSE <<>>
         IN  [k \in DetailKeys |->
                 IF k = "Location" THEN location ELSE description]

(***************************************************************************)
(* The next-page link of a list page (lines 129-140).  A page's links are  *)
(* [pagination_next, next, rel_next], what each of the three selectors     *)
(* matches, as attribute elements on href.                                 *)
(***************************************************************************)
NoUrl == <<>>

\* a or b or c on Tags, a Tag being always true: the first match
select_next_link(links) ==
    IF links.pagination_next.has THEN links.pagination_next
    ELSE IF links.next.has THEN links.next
    ELSE links.rel_next

\* the value next_page_url takes at the end of an iteration; NoUrl is None
find_next_page_url(links) ==
    LET next_link == select_next_link(links)
    IN  IF next_link.has /\ next_link.attr
        THEN urljoin(BASE_URL, next_link.val)
        ELSE NoUrl

(***************************************************************************)
(* The row of the enrichment loop and the DataFrame clean-up.              *)
(***************************************************************************)
\* the dict `cleaned` (lines 157-165)
cleaned_row(job, detail_url, details) ==
    [k \in ColumnSet |->
        CASE k = "Location" -> Strip(details["Location"])
          [] k = "Job Description" -> Strip(details["Job Description"])
          [] k = "Job Detail URL" -> Strip(detail_url)
          [] OTHER -> Strip(job[k])]

\* df.applymap(strip) (line 182)
strip_cells(df) == [i \in 1..Len(df) |-> [k \in ColumnSet |-> Strip(df[i][k])]]

\* variant: only None is replaced, and no cell of the model is None
replace_none_only(df) == df

\* df.replace(["", None], "N/A") (line 183)
replace_empty(df) ==
    [i \in 1..Len(df) |-> [k \in ColumnSet |-> IF df[i][k] = <<>> THEN NA ELSE df[i][k]]]

\* variant: keep="last"
RECURSIVE drop_duplicates_keep_last(_)
drop_duplicates_keep_last(df) ==
    IF df = <<>> THEN <<>>
    ELSE LET back == drop_duplicates_keep_last(Tail(df))
             first == Head(df)
         IN  IF \E i \in 1..Len(back) : back[i] = first
             THEN back
             ELSE <<first>> \o back

\* df.drop_duplicates(keep="first") and reset_index (lines 184-185)
RECURSIVE drop_duplicates(_)
drop_duplicates(df) ==
    IF df = <<>> THEN <<>>
    ELSE LET front == drop_duplicates(SubSeq(df, 1, Len(df) - 1))
             last == df[Len(df)]
         IN  IF \E i \in 1..Len(front) : front[i] = last
             THEN front
             ELSE Append(front, last)

\* variant: the duplicates are dropped before the cells are cleaned
clean_dataframe_dedup_first(rows) == replace_empty(strip_cells(drop_duplicates(rows)))

\* lines 177-185
clean_dataframe(rows) == drop_duplicates(replace_empty(strip_cells(rows)))

(***************************************************************************)
(* The site the run scrapes.  Its list pages live at the URLs a next link  *)
(* of the model can resolve to; a page is what a successful load of its    *)
(* URL shows: the div.card-content matches and the three next-link         *)
(* selectors.  The choice of a page's content is made when the walker      *)
(* first captures it and is kept for later visits.                         *)
(***************************************************************************)
Href2 == <<"2">>
Href3 == <<"3">>
ListUrls == {urljoin(BASE_URL, h) : h \in {<<>>, Href2, Href3}}

Links(a, b, c) == [pagination_next |-> a, next |-> b, rel_next |-> c]

LinkChoices ==
    { Links(NoAttrEl, NoAttrEl, NoAttrEl),
      Links(AttrEl(Href2), NoAttrEl, AttrEl(Href3)),
      Links(NoAttrEl, AttrEl(Href3), AttrEl(Href2)),
      Links(NoAttrEl, NoAttrEl, AttrEl(<<>>)),
      Links(BareEl, AttrEl(Href2), NoAttrEl) }

Card(title, company, date, logo, apply) ==
    [title |-> title, company |-> company, date |-> date, logo |-> logo, apply |-> apply]

CardFull ==
    Card(TextEl(<< <<" ", "a", " ">> >>), TextEl(<< <<"c">> >>),
         AttrEl(<<"1">>), AttrEl(<<"g">>), AttrEl(<<"d">>))
CardOther ==
    Card(TextEl(<< <<"b">>, <<" ">> >>), TextEl(<< <<"c">> >>),
         AttrEl(<<"1", " ">>), BareEl, AttrEl(<<"e">>))
CardSentinel ==
    Card(NoTextEl, TextEl(<< NA >>), NoAttrEl, AttrEl(<<" ">>), NoAttrEl)
CardBlank ==
    Card(NoTextEl, NoTextEl, NoAttrEl, NoAttrEl, NoAttrEl)

CardChoices ==
    { <<>>,
      <<CardFull>>,
      <<CardOther>>,
      <<CardSentinel, CardBlank>>,
      <<CardBlank, CardFull>> }

UnknownPage == [known |-> FALSE, cards |-> <<>>, links |-> Links(NoAttrEl, NoAttrEl, NoAttrEl)]
Page(cards, links) == [known |-> TRUE, cards |-> cards, links |-> links]
PageChoices == {Page(c, l) : c \in CardChoices, l \in LinkChoices}

\* what page.content() of a detail page may return
DetailChoices ==
    { DetailDoc(TextEl(<< <<"L", "o", "c", "a", "t", "i", "o", "n", ":", " ", "R">> >>),
                TextEl(<< <<"x", " ">>, <<"y">> >>)),
      DetailDoc(NoTextEl, NoTextEl) }

(***************************************************************************)
(* What a call or an attempt ends with: a returned markup or a raised      *)
(* exception.  An exception is told from the others by its type, the       *)
(* attempt it was raised in and the call that raised it.                   *)
(***************************************************************************)
NoExc == [type |-> "none", attempt |-> 0, at |-> "none"]
Exc(type, attempt, at) == [type |-> type, attempt |-> attempt, at |-> at]
NoOutcome == [kind |-> "none", html |-> None, exc |-> NoExc]
Return(html) == [kind |-> "return", html |-> html, exc |-> NoExc]
Raise(exc) == [kind |-> "raise", html |-> None, exc |-> exc]

\* playwright's TimeoutError and every other error are Exception subclasses
ExcTypes == {"TimeoutError", "Error"}
IsException(type) == type \in ExcTypes

(***************************************************************************)
(* The @retry policy of fetch_detail_html (lines 80-83).                   *)
(***************************************************************************)
\* stop_after_attempt(RETRY_ATTEMPTS)
stop_after_attempt(attempt_number) == attempt_number >= RETRY_ATTEMPTS

\* variant: only a timeout is retried
retry_if_timeout(exc) == exc.type = "TimeoutError"

\* retry_if_exception_type(Exception)
retry_if_exception_type(exc) == IsException(exc.type)

Min(a, b) == IF a < b THEN a ELSE b
Max(a, b) == IF a > b THEN a ELSE b

\* variant: the next attempt starts at once
wait_none(attempt_number) == 0

\* wait_exponential(multiplier=1, min=1, max=5): multiplier * 2^(n-1),
\* clamped to [min, max], after attempt n
wait_exponential(attempt_number) == Max(1, Min(1 * 2^(attempt_number - 1), 5))

\* reraise=True: the caller gets the exception of the last attempt
reraise(last) == Raise(last.exc)

(***************************************************************************)
(* The state of a run of main().                                           *)
(***************************************************************************)
VARIABLES
    pc,             \* where main() is: see the actions
    site,           \* list URL -> the page a load of it shows
    next_page_url,  \* line 110
    page_index,     \* line 111
    all_jobs,       \* line 103
    navLog,         \* the page.goto calls of line 116: [url, ok], in order
    pacing,         \* how often the sleep of line 138 was taken
    idx,            \* the enumerate index of line 145
    detailed_jobs,  \* line 144
    fetched,        \* per processed record: "skipped", "returned", "raised"
    attempt,        \* attempts the last call of fetch_detail_html started
    failures,       \* attempts of that call that ended with an exception
    units,          \* detail pages opened (line 87) and not yet closed (line 94)
    tried,          \* how the try block of the last attempt ended
    close_failed,   \* whether page.close() of the last attempt raised
    outcome,        \* how the last attempt ended
    backoff,        \* the waits of the last call, in order
    received,       \* what the last call gave main(): a markup or an exception
    context_closes, \* how often context.close() of line 171 was called
    df              \* the table handed to df.to_excel (line 187)

vars == <<pc, site, next_page_url, page_index, all_jobs, navLog, pacing, idx,
          detailed_jobs, fetched, attempt, failures, units, tried, close_failed,
          outcome, backoff, received, context_closes, df>>

walkerVars == <<site, next_page_url, page_index, all_jobs, navLog, pacing>>
fetchVars == <<attempt, failures, units, tried, close_failed, outcome, backoff, received>>
enrichVars == <<idx, detailed_jobs, fetched>>

\* lines 103-111, the session started
Init ==
    /\ pc = "goto_list"
    /\ site = [u \in ListUrls |-> UnknownPage]
    /\ next_page_url = BASE_URL
    /\ page_index = 1
    /\ all_jobs = <<>>
    /\ navLog = <<>>
    /\ pacing = 0
    /\ idx = 0
    /\ detailed_jobs = <<>>
    /\ fetched = <<>>
    /\ attempt = 0
    /\ failures = 0
    /\ units = {}
    /\ tried = NoOutcome
    /\ close_failed = FALSE
    /\ outcome = NoOutcome
    /\ backoff = <<>>
    /\ received = NoOutcome
    /\ context_closes = 0
    /\ df = <<>>

\* no call of fetch_detail_html is running or remembered
NoCall ==
    /\ attempt' = 0
    /\ failures' = 0
    /\ tried' = NoOutcome
    /\ close_failed' = FALSE
    /\ outcome' = NoOutcome
    /\ backoff' = <<>>
    /\ received' = NoOutcome

(***************************************************************************)
(* Pagination (lines 113-140).                                             *)
(***************************************************************************)
\* line 116, page.goto returns
ListGotoOk ==
    /\ pc = "goto_list"
    /\ Len(navLog) < MaxNav
    /\ navLog' = Append(navLog, [url |-> next_page_url, ok |-> TRUE])
    /\ pc' = "list_content"
    /\ UNCHANGED <<site, next_page_url, page_index, all_jobs, pacing>>
    /\ UNCHANGED <<enrichVars, fetchVars, context_closes, df>>

\* variant: the handler goes on with the loop instead of leaving it
ListGotoFailContinues ==
    /\ pc = "goto_list"
    /\ Len(navLog) < MaxNav
    /\ navLog' = Append(navLog, [url |-> next_page_url, ok |-> FALSE])
    /\ pc' = "goto_list"
    /\ UNCHANGED <<site, next_page_url, page_index, all_jobs, pacing>>
    /\ UNCHANGED <<enrichVars, fetchVars, context_closes, df>>

\* lines 117-122, page.goto raises a TimeoutError or another Exception: break
ListGotoFail ==
    /\ pc = "goto_list"
    /\ Len(navLog) < MaxNav
    /\ navLog' = Append(navLog, [url |-> next_page_url, ok |-> FALSE])
    /\ pc' = "enrich"
    /\ UNCHANGED <<site, next_page_url, page_index, all_jobs, pacing>>
    /\ UNCHANGED <<enrichVars, fetchVars, context_closes, df>>

\* variant: the jobs of a page are put in front of the accumulated ones
extend_in_front(list, jobs_on_page) == jobs_on_page \o list

\* all_jobs.extend(jobs_on_page) (line 127)
extend(list, jobs_on_page) == list \o jobs_on_page

\* variant: the sleep of line 138 is taken after every page, also after
\* one without a next link
ListContentOkPacesAlways ==
    /\ pc = "list_content"
    /\ \E page \in PageChoices :
          /\ site[next_page_url].known => page = site[next_page_url]
          /\ Len(all_jobs) + Len(page.cards) <= MaxJobs
          /\ site' = [site EXCEPT ![next_page_url] = page]
          /\ all_jobs' = extend(all_jobs, parse_jobs_from_page(page.cards))
          /\ LET url == find_next_page_url(page.links)
             IN  IF url # NoUrl
                 THEN /\ next_page_url' = url
                      /\ page_index' = page_index + 1
                      /\ pc' = "goto_list"
                 ELSE /\ next_page_url' = NoUrl
                      /\ UNCHANGED page_index
                      /\ pc' = "enrich"
    /\ pacing' = pacing + 1
    /\ UNCHANGED navLog
    /\ UNCHANGED <<enrichVars, fetchVars, context_closes, df>>

\* lines 124-140, page.content() returns the markup of the page
ListContentOk ==
    /\ pc = "list_content"
    /\ \E page \in PageChoices :
          /\ site[next_page_url].known => page = site[next_page_url]
          /\ Len(all_jobs) + Len(page.cards) <= MaxJobs
          /\ site' = [site EXCEPT ![next_page_url] = page]
          /\ all_jobs' = extend(all_jobs, parse_jobs_from_page(page.cards))
          /\ LET url == find_next_page_url(page.links)
             IN  IF url # NoUrl
                 THEN /\ next_page_url' = url
                      /\ page_index' = page_index + 1
                      /\ pacing' = pacing + 1
                      /\ pc' = "goto_list"
                 ELSE /\ next_page_url' = NoUrl
                      /\ UNCHANGED <<page_index, pacing>>
                      /\ pc' = "enrich"
    /\ UNCHANGED navLog
    /\ UNCHANGED <<enrichVars, fetchVars, context_closes, df>>

\* line 124, page.content() raises: nothing catches it, main() ends with it
ListContentFail ==
    /\ pc = "list_content"
    /\ pc' = "crashed"
    /\ UNCHANGED <<walkerVars, enrichVars, fetchVars, context_closes, df>>

(***************************************************************************)
(* Enrichment (lines 144-169).                                             *)
(***************************************************************************)
\* variant: a job without a detail URL gets no row
SkipDetailDropsRow ==
    /\ pc = "enrich"
    /\ idx < Len(all_jobs)
    /\ all_jobs[idx + 1]["Job Detail URL"] = <<>>
    /\ idx' = idx + 1
    /\ fetched' = Append(fetched, "skipped")
    /\ NoCall
    /\ UNCHANGED <<pc, units, detailed_jobs>>
    /\ UNCHANGED <<walkerVars, context_closes, df>>

\* lines 145-148 and 157-166 for a job without a detail URL
SkipDetail ==
    /\ pc = "enrich"
    /\ idx < Len(all_jobs)
    /\ LET job == all_jobs[idx + 1]
           detail_url == job["Job Detail URL"]
       IN  /\ detail_url = <<>>
           /\ detailed_jobs' = Append(detailed_jobs, cleaned_row(job, detail_url, DefaultDetails))
    /\ idx' = idx + 1
    /\ fetched' = Append(fetched, "skipped")
    /\ NoCall
    /\ UNCHANGED <<pc, units>>
    /\ UNCHANGED <<walkerVars, context_closes, df>>

\* variant: the fetch of the next record does not wait for the pagination
StartFetchDuringPagination ==
    /\ pc \in {"enrich", "goto_list"}
    /\ idx < Len(all_jobs)
    /\ all_jobs[idx + 1]["Job Detail URL"] # <<>>
    /\ idx' = idx + 1
    /\ attempt' = 1
    /\ failures' = 0
    /\ tried' = NoOutcome
    /\ close_failed' = FALSE
    /\ outcome' = NoOutcome
    /\ backoff' = <<>>
    /\ received' = NoOutcome
    /\ pc' = "new_page"
    /\ UNCHANGED <<detailed_jobs, fetched, units>>
    /\ UNCHANGED <<walkerVars, context_closes, df>>

\* lines 145-150: fetch_detail_html is called, the url not being empty
\* (line 85), and its first attempt starts
StartFetch ==
    /\ pc = "enrich"
    /\ idx < Len(all_jobs)
    /\ all_jobs[idx + 1]["Job Detail URL"] # <<>>
    /\ idx' = idx + 1
    /\ attempt' = 1
    /\ failures' = 0
    /\ tried' = NoOutcome
    /\ close_failed' = FALSE
    /\ outcome' = NoOutcome
    /\ backoff' = <<>>
    /\ received' = NoOutcome
    /\ pc' = "new_page"
    /\ UNCHANGED <<detailed_jobs, fetched, units>>
    /\ UNCHANGED <<walkerVars, context_closes, df>>

\* line 87, context.new_page() returns
NewPageOk ==
    /\ pc = "new_page"
    /\ units' = units \cup {<<idx, attempt>>}
    /\ pc' = "detail_goto"
    /\ UNCHANGED <<attempt, failures, tried, close_failed, outcome, backoff, received>>
    /\ UNCHANGED <<walkerVars, enrichVars, context_closes, df>>

\* line 87, context.new_page() raises: the attempt ends outside the try
NewPageFail ==
    /\ pc = "new_page"
    /\ tried' = Raise(Exc("Error", attempt, "new_page"))
    /\ outcome' = tried'
    /\ failures' = failures + 1
    /\ pc' = "attempt_end"
    /\ UNCHANGED <<attempt, units, close_failed, backoff, received>>
    /\ UNCHANGED <<walkerVars, enrichVars, context_closes, df>>

\* line 89, page.goto returns
DetailGotoOk ==
    /\ pc = "detail_goto"
    /\ pc' = "capture"
    /\ UNCHANGED <<walkerVars, enrichVars, fetchVars, context_closes, df>>

\* variant: no finally, a failed navigation leaves the attempt at once
DetailGotoFailWithoutFinally ==
    /\ pc = "detail_goto"
    /\ \E type \in ExcTypes : tried' = Raise(Exc(type, attempt, "goto"))
    /\ outcome' = tried'
    /\ failures' = failures + 1
    /\ pc' = "attempt_end"
    /\ UNCHANGED <<attempt, units, close_failed, backoff, received>>
    /\ UNCHANGED <<walkerVars, enrichVars, context_closes, df>>

\* line 89, page.goto raises
DetailGotoFail ==
    /\ pc = "detail_goto"
    /\ \E type \in ExcTypes : tried' = Raise(Exc(type, attempt, "goto"))
    /\ pc' = "close"
    /\ UNCHANGED <<attempt, failures, units, close_failed, outcome, backoff, received>>
    /\ UNCHANGED <<walkerVars, enrichVars, context_closes, df>>

\* lines 90-91, page.content() returns
CaptureOk ==
    /\ pc = "capture"
    /\ \E html \in DetailChoices : tried' = Return(html)
    /\ pc' = "close"
    /\ UNCHANGED <<attempt, failures, units, close_failed, outcome, backoff, received>>
    /\ UNCHANGED <<walkerVars, enrichVars, context_closes, df>>

\* line 91, page.content() raises
CaptureFail ==
    /\ pc = "capture"
    /\ tried' = Raise(Exc("Error", attempt, "content"))
    /\ pc' = "close"
    /\ UNCHANGED <<attempt, failures, units, close_failed, outcome, backoff, received>>
    /\ UNCHANGED <<walkerVars, enrichVars, context_closes, df>>

\* variant: the close of the finally is not guarded, its exception
\* replaces what the try block ended with
close_outcome_unguarded(ended, close_ok) ==
    IF close_ok THEN ended ELSE Raise(Exc("Error", attempt, "close"))

\* the finally of lines 92-96: a failing page.close() is swallowed, so the
\* attempt ends as its try block did
close_outcome(ended, close_ok) == ended

\* lines 92-96, the finally: page.close() returns or raises
ClosePage ==
    /\ pc = "close"
    /\ \E close_ok \in BOOLEAN :
          /\ close_failed' = ~close_ok
          /\ outcome' = close_outcome(tried, close_ok)
    /\ failures' = IF outcome'.kind = "raise" THEN failures + 1 ELSE failures
    /\ units' = units \ {<<idx, attempt>>}
    /\ pc' = "attempt_end"
    /\ UNCHANGED <<attempt, tried, backoff, received>>
    /\ UNCHANGED <<walkerVars, enrichVars, context_closes, df>>

\* the attempt raised, the policy retries: the wait, then the next attempt
Retry ==
    /\ pc = "attempt_end"
    /\ outcome.kind = "raise"
    /\ retry_if_exception_type(outcome.exc)
    /\ ~stop_after_attempt(attempt)
    /\ backoff' = Append(backoff, wait_exponential(attempt))
    /\ attempt' = attempt + 1
    /\ tried' = NoOutcome
    /\ close_failed' = FALSE
    /\ outcome' = NoOutcome
    /\ pc' = "new_page"
    /\ UNCHANGED <<failures, units, received>>
    /\ UNCHANGED <<walkerVars, enrichVars, context_closes, df>>

\* the attempt returned: lines 150-151 and 157-166
FetchReturn ==
    /\ pc = "attempt_end"
    /\ outcome.kind = "return"
    /\ received' = outcome
    /\ LET job == all_jobs[idx]
           detail_url == job["Job Detail URL"]
           details == parse_job_details(received'.html)
       IN  detailed_jobs' = Append(detailed_jobs, cleaned_row(job, detail_url, details))
    /\ fetched' = Append(fetched, "returned")
    /\ pc' = "enrich"
    /\ UNCHANGED <<idx, attempt, failures, units, tried, close_failed, outcome, backoff>>
    /\ UNCHANGED <<walkerVars, context_closes, df>>

\* variant: the handler of lines 152-155 drops the record
FetchRaiseDropsRow ==
    /\ pc = "attempt_end"
    /\ outcome.kind = "raise"
    /\ ~retry_if_exception_type(outcome.exc) \/ stop_after_attempt(attempt)
    /\ received' = reraise(outcome)
    /\ fetched' = Append(fetched, "raised")
    /\ pc' = "enrich"
    /\ UNCHANGED <<idx, detailed_jobs, attempt, failures, units, tried, close_failed, outcome, backoff>>
    /\ UNCHANGED <<walkerVars, context_closes, df>>

\* the attempt raised and the policy gives up: the exception reaches
\* lines 152-155, and lines 157-166 run with the default details
FetchRaise ==
    /\ pc = "attempt_end"
    /\ outcome.kind = "raise"
    /\ ~retry_if_exception_type(outcome.exc) \/ stop_after_attempt(attempt)
    /\ received' = reraise(outcome)
    /\ LET job == all_jobs[idx]
           detail_url == job["Job Detail URL"]
       IN  detailed_jobs' = Append(detailed_jobs, cleaned_row(job, detail_url, DefaultDetails))
    /\ fetched' = Append(fetched, "raised")
    /\ pc' = "enrich"
    /\ UNCHANGED <<idx, attempt, failures, units, tried, close_failed, outcome, backoff>>
    /\ UNCHANGED <<walkerVars, context_closes, df>>

(***************************************************************************)
(* The end of the run (lines 171-189).                                     *)
(***************************************************************************)
\* lines 171-172: the loop of line 145 is over
Teardown ==
    /\ pc = "enrich"
    /\ idx = Len(all_jobs)
    /\ context_closes' = context_closes + 1
    /\ NoCall
    /\ pc' = "clean"
    /\ UNCHANGED units
    /\ UNCHANGED <<walkerVars, enrichVars, df>>

\* lines 177-187: the cleaned table goes to df.to_excel
CleanAndSave ==
    /\ pc = "clean"
    /\ df' = clean_dataframe(detailed_jobs)
    /\ pc' = "done"
    /\ UNCHANGED <<walkerVars, enrichVars, fetchVars, context_closes>>

Next ==
    \/ ListGotoOk
    \/ ListGotoFail
    \/ ListContentOk
    \/ ListContentFail
    \/ SkipDetail
    \/ StartFetch
    \/ NewPageOk
    \/ NewPageFail
    \/ DetailGotoOk
    \/ DetailGotoFail
    \/ CaptureOk
    \/ CaptureFail
    \/ ClosePage
    \/ Retry
    \/ FetchReturn
    \/ FetchRaise
    \/ Teardown
    \/ CleanAndSave

Spec == Init /\ [][Next]_vars

(***************************************************************************)
(* fetch_detail_html called with an empty url.  main() never does this     *)
(* (line 148), so the call is that of another caller of the function: here *)
(* one that calls it once main() has written its file.                     *)
(***************************************************************************)
\* variant: no line 85; context.new_page() and page.goto("") run in each of
\* the attempts, the navigation fails each time and the last error is raised
FetchWithoutUrlNavigates ==
    /\ pc = "done"
    /\ attempt' = RETRY_ATTEMPTS
    /\ failures' = RETRY_ATTEMPTS
    /\ tried' = Raise(Exc("Error", RETRY_ATTEMPTS, "goto"))
    /\ close_failed' = FALSE
    /\ outcome' = tried'
    /\ backoff' = [n \in 1..(RETRY_ATTEMPTS - 1) |-> wait_exponential(n)]
    /\ received' = reraise(outcome')
    /\ pc' = "called"
    /\ UNCHANGED units
    /\ UNCHANGED <<walkerVars, enrichVars, context_closes, df>>

\* lines 84-86 with an empty url: the first attempt returns None before
\* line 87, and tenacity hands a returned value to the caller
FetchWithoutUrl ==
    /\ pc = "done"
    /\ attempt' = 1
    /\ failures' = 0
    /\ tried' = Return(None)
    /\ close_failed' = FALSE
    /\ outcome' = tried'
    /\ backoff' = <<>>
    /\ received' = outcome'
    /\ pc' = "called"
    /\ UNCHANGED units
    /\ UNCHANGED <<walkerVars, enrichVars, context_closes, df>>

CallerNext ==
    \/ Next
    \/ FetchWithoutUrl

CallerSpec == Init /\ [][CallerNext]_vars

(***************************************************************************)
(* The cleaning of lines 177-185 on its own: it is given a table of rows   *)
(* with cells of any shape, and then the table it has produced.            *)
(***************************************************************************)
RawRow(title, company, description) ==
    [k \in ColumnSet |->
        CASE k = "Job Title" -> title
          [] k = "Company Name" -> company
          [] k = "Job Description" -> description
          [] OTHER -> <<>>]

RowChoices ==
    { RawRow(<<"a">>, <<>>, <<"x">>),
      RawRow(<<" ", "a">>, <<" ">>, <<"x", " ">>),
      RawRow(<<"a">>, NA, <<"x">>),
      RawRow(<<"b">>, <<>>, <<"x">>),
      RawRow(<<"a">>, <<"c">>, <<"\t">>),
      RawRow(<<>>, <<>>, <<>>) }

RECURSIVE Tables(_)
Tables(n) ==
    IF n = 0 THEN {<<>>}
    ELSE LET shorter == Tables(n - 1)
         IN  shorter \cup {Append(t, r) : t \in {u \in shorter : Len(u) = n - 1}, r \in RowChoices}

\* detailed_jobs is any table of up to MaxRows rows at line 177
NormalizerInit ==
    /\ pc = "clean"
    /\ detailed_jobs \in Tables(MaxRows)
    /\ site = [u \in ListUrls |-> UnknownPage]
    /\ next_page_url = NoUrl
    /\ page_index = 1
    /\ all_jobs = <<>>
    /\ navLog = <<>>
    /\ pacing = 0
    /\ idx = 0
    /\ fetched = <<>>
    /\ attempt = 0
    /\ failures = 0
    /\ units = {}
    /\ tried = NoOutcome
    /\ close_failed = FALSE
    /\ outcome = NoOutcome
    /\ backoff = <<>>
    /\ received = NoOutcome
    /\ context_closes = 1
    /\ df = <<>>

\* lines 177-185 run on the table they produced
CleanAgain ==
    /\ pc = "done"
    /\ detailed_jobs' = df
    /\ df' = clean_dataframe(df)
    /\ pc' = "cleaned_again"
    /\ UNCHANGED <<walkerVars, idx, fetched, fetchVars, context_closes>>

NormalizerNext ==
    \/ CleanAndSave
    \/ CleanAgain

NormalizerSpec == NormalizerInit /\ [][NormalizerNext]_vars

(***************************************************************************)
(* parse_job_details on its own: it is given a markup of any shape, None   *)
(* and the empty string included, as the value fetch_detail_html returned  *)
(* for the one record of the run.                                          *)
(***************************************************************************)
LabelChoices ==
    { <<"L", "o", "c", "a", "t", "i", "o", "n", ":">>,
      <<"L", "O", "C", "A", "T", "I", "O", "N", ":">>,
      <<"l", "o", "c", "a", "t", "i", "o", "n", ":">>,
      <<"l", "O", "C", "A", "T", "I", "O", "N", ":">> }
RestChoices ==
    { <<>>,
      <<" ", "R">>,
      <<"R">>,
      <<" ", "R", ":", " ", "N">>,
      <<"R", " ">>,
      <<":", "R">> }
PlainChoices ==
    { <<"R">>,
      <<"L", "o", "c", "a", "t", "i", "o", "n">>,
      <<"L", "o", "c", "a", "t", "i", "o", "n", " ", ":", "R">>,
      <<"L", "o", "c", ":", "R">>,
      <<":", "R">>,
      <<"R", ":", " ", "N">>,
      <<"o", "c", "a", "t", "i", "o", "n", ":", "R">> }

\* what p#location may be: absent, or an element with these text nodes
LocationChoices ==
    {NoTextEl}
    \cup {TextEl(<<l \o r>>) : l \in LabelChoices, r \in RestChoices}
    \cup {TextEl(<<t>>) : t \in PlainChoices}
    \cup { TextEl(<< <<"L", "o", "c", "a", "t", "i", "o", "n", ":">>, <<" ", "R", " ">> >>),
           TextEl(<< <<"L", "o", "c">>, <<"a", "t", "i", "o", "n", ":", "R">> >>) }

DescriptionChoices == {NoTextEl, TextEl(<< <<"x", " ">>, <<" ", "y">> >>)}

DetailInputs ==
    {None, EmptyHtml}
    \cup {DetailDoc(l, d) : l \in LocationChoices, d \in DescriptionChoices}

\* line 150 returned html for the only record, which has a detail URL
DetailInit ==
    /\ pc = "attempt_end"
    /\ all_jobs = parse_jobs_from_page(<<CardFull>>)
    /\ idx = 1
    /\ attempt = 1
    /\ \E html \in DetailInputs : tried = Return(html)
    /\ outcome = tried
    /\ site = [u \in ListUrls |-> UnknownPage]
    /\ next_page_url = NoUrl
    /\ page_index = 1
    /\ navLog = <<>>
    /\ pacing = 0
    /\ detailed_jobs = <<>>
    /\ fetched = <<>>
    /\ failures = 0
    /\ units = {}
    /\ close_failed = FALSE
    /\ backoff = <<>>
    /\ received = NoOutcome
    /\ context_closes = 0
    /\ df = <<>>

DetailNext == FetchReturn

DetailSpec == DetailInit /\ [][DetailNext]_vars

(***************************************************************************)
(* Vocabulary of the properties.                                           *)
(***************************************************************************)
WalkerPcs == {"goto_list", "list_content"}
FetchPcs == {"new_page", "detail_goto", "capture", "close", "attempt_end"}
\* the Pagination Walker is DONE: the loop of line 113 was left
WalkerDone == pc \notin WalkerPcs \cup {"crashed"}

\* a field as the output shows it: trimmed, "N/A" when nothing is left
Shown(v) == IF Strip(v) = <<>> THEN NA ELSE Strip(v)
ShownRow(row) == [k \in DOMAIN row |-> Shown(row[k])]

\* the summary records differ pairwise in what the output shows of them
DistinctAsShown(jobs) ==
    \A i, j \in 1..Len(jobs) :
        i < j => \E k \in SummaryKeys : Shown(jobs[i][k]) # Shown(jobs[j][k])

\* the summary records differ pairwise
Distinct(jobs) == \A i, j \in 1..Len(jobs) : i < j => jobs[i] # jobs[j]

\* row carries the summary fields of job, as the output shows them
CarriesSummary(row, job) == \A k \in SummaryKeys : row[k] = Shown(job[k])

\* row, a row of the enrichment loop, carries the summary fields of job
BuiltFrom(row, job) == \A k \in SummaryKeys : row[k] = Strip(job[k])

\* a is b with some of its elements left out
RECURSIVE IsSubsequence(_, _)
IsSubsequence(a, b) ==
    IF a = <<>> THEN TRUE
    ELSE IF b = <<>> THEN FALSE
    ELSE IF Head(a) = Head(b) THEN IsSubsequence(Tail(a), Tail(b))
    ELSE IsSubsequence(a, Tail(b))

\* the summary records of each page of the model, as the parser gives them
RecordsOf == [cards \in CardChoices |-> parse_jobs_from_page(cards)]

\* the summary records of the pages navLog[1..n] loaded, in order
RECURSIVE CollectedFrom(_)
CollectedFrom(n) ==
    IF n = 0 THEN <<>>
    ELSE CollectedFrom(n - 1) \o RecordsOf[site[navLog[n].url].cards]

AllNavigationsOk == \A i \in 1..Len(navLog) : navLog[i].ok

\* the list URLs from u on along the next links, at most n of them, as
\* far as the pages are known
RECURSIVE FollowNext(_, _)
FollowNext(u, n) ==
    IF n = 0 \/ u = NoUrl \/ ~site[u].known THEN <<>>
    ELSE <<u>> \o FollowNext(find_next_page_url(site[u].links), n - 1)

\* the list URLs along the next links from BASE_URL
ChainUrls == FollowNext(BASE_URL, Cardinality(ListUrls))

\* urls is a finite chain of list pages: following the next links never
\* comes back to a page and ends at a page without a next link
IsChain(urls) ==
    /\ urls # <<>>
    /\ \A i, j \in 1..Len(urls) : i < j => urls[i] # urls[j]
    /\ find_next_page_url(site[urls[Len(urls)]].links) = NoUrl

(***************************************************************************)
(* The properties.                                                         *)
(***************************************************************************)

\* C1, as stated: for any N pairwise-distinct summary records, whichever
\* detail fetches fail on every attempt, the output has exactly N rows,
\* and every row whose fetch failed has Location = "N/A" and Job
\* Description = "N/A" and the summary fields of its record.
C1_AsStated ==
    pc = "done" /\ Distinct(all_jobs) =>
        /\ Len(df) = Len(all_jobs)
        /\ \A i \in 1..Len(df) :
              fetched[i] = "raised" =>
                  /\ df[i]["Location"] = NA
                  /\ df[i]["Job Description"] = NA
                  /\ CarriesSummary(df[i], all_jobs[i])

\* C1, amended: the enrichment loop never ends the run, and for N summary
\* records that are pairwise distinct in what the output shows of them
\* (an empty field shown as "N/A"), whichever detail fetches fail on every
\* attempt, the output has exactly N rows, and every row whose fetch
\* failed has Location = "N/A" and Job Description = "N/A" and the
\* summary fields of its record.
C1_FailedFetchKeepsRow ==
    /\ pc = "crashed" => idx = 0 /\ detailed_jobs = <<>>
    /\ pc \in {"clean", "done"} => Len(detailed_jobs) = Len(all_jobs)
    /\ pc = "done" /\ DistinctAsShown(all_jobs) =>
          /\ Len(df) = Len(all_jobs)
          /\ \A i \in 1..Len(df) :
                fetched[i] = "raised" =>
                    /\ df[i]["Location"] = NA
                    /\ df[i]["Job Description"] = NA
                    /\ CarriesSummary(df[i], all_jobs[i])

\* three distinct records, the second one's fetch failed for good, another
\* one's fetch gave a location
C1_Witness ==
    /\ pc = "done"
    /\ Len(all_jobs) = 3
    /\ DistinctAsShown(all_jobs)
    /\ fetched[2] = "raised"
    /\ \E i \in 1..Len(df) : fetched[i] = "returned" /\ df[i]["Location"] # NA

\* C2: a call of fetch_detail_html with a non-empty URL makes at most 3
\* attempts; an attempt runs only when every earlier one ended with an
\* exception, whatever raised it; the call returns the markup captured by
\* its successful attempt, which is its last; and it raises only after 3
\* failed attempts, the exception being the third attempt's.
C2_BoundedRetry ==
    /\ attempt <= RETRY_ATTEMPTS
    /\ pc \in FetchPcs \ {"attempt_end"} => failures = attempt - 1
    /\ pc = "attempt_end" =>
          failures = IF tried.kind = "raise" THEN attempt ELSE attempt - 1
    /\ received.kind = "return" =>
          /\ tried.kind = "return"
          /\ received.html = tried.html
          /\ failures = attempt - 1
    /\ received.kind = "raise" =>
          /\ attempt = RETRY_ATTEMPTS
          /\ failures = RETRY_ATTEMPTS
          /\ tried.kind = "raise"
          /\ received.exc = tried.exc
          /\ received.exc.attempt = RETRY_ATTEMPTS

\* fail, fail, succeed: the third attempt's markup is returned, after an
\* earlier call has raised
C2_Witness ==
    /\ pc = "enrich"
    /\ "raised" \in {fetched[i] : i \in 1..Len(fetched)}
    /\ received.kind = "return"
    /\ attempt = 3
    /\ failures = 2

\* C3: a failed navigation to a list page is the last navigation of the
\* run; with it the walker is DONE, the accumulated records are exactly
\* those of the pages loaded before it, in order, and the enrichment loop
\* builds its rows from exactly those records.
C3_NavigationFailureEndsPagination ==
    LET k == Len(navLog)
    IN  /\ \A i \in 1..k : ~navLog[i].ok => i = k
        /\ k > 0 /\ ~navLog[k].ok =>
              /\ WalkerDone
              /\ all_jobs = CollectedFrom(k - 1)
              /\ Len(detailed_jobs) <= Len(all_jobs)
              /\ \A i \in 1..Len(detailed_jobs) :
                    BuiltFrom(detailed_jobs[i], all_jobs[i])
              /\ pc \in {"clean", "done"} => Len(detailed_jobs) = Len(all_jobs)

\* the navigation to the second list page failed and the run ended with
\* the records of the first
C3_Witness ==
    /\ pc = "done"
    /\ Len(navLog) = 2
    /\ ~navLog[2].ok
    /\ Len(all_jobs) = 2
    /\ Len(df) = 2

\* C4: while every navigation succeeds the walker follows the next links
\* from BASE_URL and accumulates the cards of the pages in page order then
\* card order; it navigates nothing after a page without a next link; and
\* when it is DONE on a site that is a chain of K pages it has navigated
\* exactly the K pages of the chain, each once and in chain order.
C4_ChainWalkedInOrder ==
    LET k == Len(navLog)
        loaded == IF pc = "list_content" THEN k - 1 ELSE k
    IN  AllNavigationsOk =>
            /\ k > 0 => navLog[1].url = BASE_URL
            /\ \A i \in 1..(k - 1) :
                  navLog[i + 1].url = find_next_page_url(site[navLog[i].url].links)
            /\ pc # "crashed" => all_jobs = CollectedFrom(loaded)
            /\ WalkerDone =>
                  LET chain == ChainUrls
                  IN  IsChain(chain) =>
                          /\ [i \in 1..k |-> navLog[i].url] = chain
                          /\ all_jobs = CollectedFrom(Len(chain))

\* a chain of two pages with three cards was walked to its end
C4_Witness ==
    /\ pc = "done"
    /\ AllNavigationsOk
    /\ IsChain(ChainUrls)
    /\ Len(ChainUrls) = 2
    /\ Len(navLog) = 2
    /\ Len(all_jobs) = 3
    /\ all_jobs[1] # all_jobs[3]

\* C5: the i-th row the enrichment loop builds carries the summary fields
\* of the i-th summary record, one row per processed record whatever the
\* fetches did, and the rows of the output are, in order, rows the loop
\* built, as the output shows them.
C5_RowsFollowRecords ==
    /\ Len(detailed_jobs) = IF pc \in FetchPcs THEN idx - 1 ELSE idx
    /\ Len(detailed_jobs) <= Len(all_jobs)
    /\ \A i \in 1..Len(detailed_jobs) :
          BuiltFrom(detailed_jobs[i], all_jobs[i])
    /\ pc = "done" =>
          IsSubsequence(df, [i \in 1..Len(detailed_jobs) |-> ShownRow(detailed_jobs[i])])

\* three records, one skipped, one failed for good, and a duplicate row
\* removed from the output
C5_Witness ==
    /\ pc = "done"
    /\ Len(detailed_jobs) = 3
    /\ Len(df) = 2
    /\ {"skipped", "raised"} \subseteq {fetched[i] : i \in 1..Len(fetched)}

\* C6: once the session has started no failure of the pipeline ends the
\* run: main() is never left by an exception.
C6_NoFailureEndsRun == pc # "crashed"

\* C7: a detail page is open only inside the try block of the attempt
\* that opened it: when an attempt has ended, on whichever path, and when
\* the next one starts, every page opened so far has had its close() call.
C7_UnitReleasedOnEveryExit ==
    /\ pc \in {"detail_goto", "capture", "close"} => units = {<<idx, attempt>>}
    /\ pc \notin {"detail_goto", "capture", "close"} => units = {}

\* the second attempt starts after a first one whose navigation timed out
C7_Witness ==
    /\ pc = "attempt_end"
    /\ attempt = 2
    /\ tried.kind = "raise"
    /\ tried.exc.type = "TimeoutError"
    /\ units = {}

\* C8: an attempt ends as its try block did, also when page.close()
\* raised: the captured markup is still returned, the original exception
\* is still the one raised, and the failure count and what the caller
\* receives are what they are when the close succeeds.
C8_CloseFailureChangesNothing ==
    /\ outcome.kind # "none" => outcome = tried
    /\ pc = "attempt_end" =>
          failures = IF tried.kind = "raise" THEN attempt ELSE attempt - 1
    /\ received.kind # "none" => received = tried

\* the close of the page raised after the markup was captured, and the
\* caller received the markup
C8_Witness ==
    /\ pc = "enrich"
    /\ close_failed
    /\ tried.kind = "return"
    /\ received.kind = "return"

\* C9: in every run the session is torn down exactly once, and only after
\* the enrichment loop has processed the last summary record.
C9_TornDownOnceAfterEnrichment ==
    /\ context_closes <= 1
    /\ context_closes = 1 =>
          /\ idx = Len(all_jobs)
          /\ Len(detailed_jobs) = Len(all_jobs)
          /\ pc \in {"clean", "done"}
    /\ pc \in {"done", "crashed"} => context_closes = 1

\* C10: no detail fetch runs before the walker is DONE, the records are
\* fetched one after the other, a record's first attempt starting only
\* when the record before it was skipped, returned or failed 3 times, and
\* at most one detail page is open at any time.
C10_StrictlySequential ==
    /\ Cardinality(units) <= 1
    /\ pc \in WalkerPcs \cup {"crashed"} =>
          idx = 0 /\ attempt = 0 /\ units = {} /\ fetched = <<>>
    /\ pc \in FetchPcs =>
          /\ WalkerDone
          /\ next_page_url = NoUrl \/ ~navLog[Len(navLog)].ok
          /\ Len(fetched) = idx - 1
          /\ Len(detailed_jobs) = idx - 1
    /\ pc = "enrich" /\ idx > 0 =>
          /\ Len(fetched) = idx
          /\ \/ fetched[idx] = "skipped"
             \/ fetched[idx] = "returned" /\ received.kind = "return"
             \/ fetched[idx] = "raised" /\ failures = RETRY_ATTEMPTS

\* the second record's attempt has its page open after the first record
\* failed for good
C10_Witness ==
    /\ pc = "capture"
    /\ idx = 2
    /\ fetched[1] = "raised"
    /\ Cardinality(units) = 1

\* C11: an empty detail URL never causes a navigation.  fetch_detail_html
\* called with an empty url returns None in its first attempt, with no page
\* opened, no failure and no wait; main() does not call it for a record
\* whose detail URL is empty, and such a record gets the default details,
\* which the output shows as "N/A".
C11_EmptyUrlNeverNavigates ==
    /\ pc = "called" =>
          /\ received = Return(None)
          /\ attempt = 1
          /\ failures = 0
          /\ backoff = <<>>
          /\ units = {}
    /\ pc \in FetchPcs => all_jobs[idx]["Job Detail URL"] # <<>>
    /\ \A i \in 1..Len(fetched) :
          /\ fetched[i] = "skipped" <=> all_jobs[i]["Job Detail URL"] = <<>>
          /\ fetched[i] = "skipped" =>
                /\ i <= Len(detailed_jobs)
                /\ \A k \in DetailKeys : detailed_jobs[i][k] = <<>>
                /\ detailed_jobs[i]["Job Detail URL"] = <<>>
                /\ pc \in {"done", "called"} =>
                      \E r \in 1..Len(df) :
                          /\ CarriesSummary(df[r], all_jobs[i])
                          /\ \A k \in DetailKeys \cup {"Job Detail URL"} : df[r][k] = NA

\* the direct call returned after a run that skipped a record and fetched
\* another
C11_Witness ==
    /\ pc = "called"
    /\ received = Return(None)
    /\ \E i, j \in 1..Len(fetched) : fetched[i] = "skipped" /\ fetched[j] = "returned"

\* C12: in the table handed to df.to_excel every row has the seven columns,
\* and every field is a non-empty string without leading or trailing
\* whitespace (the sentinel "N/A" is one): no field is empty or
\* whitespace-only, whatever the markup gave and however the fetch ended.
C12_FieldsTrimmedOrSentinel ==
    pc = "done" =>
        \A r \in 1..Len(df) :
            /\ DOMAIN df[r] = ColumnSet
            /\ \A k \in ColumnSet :
                  LET v == df[r][k]
                  IN  /\ v # <<>>
                      /\ ~IsSpace(v[1])
                      /\ ~IsSpace(v[Len(v)])

\* a table with a row of a failed fetch, a row whose logo attribute was
\* whitespace only and a row whose title had whitespace around it
C12_Witness ==
    /\ pc = "done"
    /\ \E i \in 1..Len(fetched) : fetched[i] = "raised"
    /\ \E i \in 1..Len(all_jobs) :
          /\ all_jobs[i]["Company Name"] = NA
          /\ \E r \in 1..Len(df) : df[r]["Company Name"] = NA /\ df[r]["Logo URL"] = NA
    /\ \E r \in 1..Len(df) : df[r]["Location"] = NA /\ df[r]["Job Title"] # NA

\* C13: the cleaned table has no two equal rows; its rows are the distinct
\* rows of the input as the output shows them (trimmed, "N/A" for empty),
\* each once and in the order of their first occurrences in the input.
C13_FirstOccurrencesInOrder ==
    pc = "done" =>
        LET shown == [i \in 1..Len(detailed_jobs) |-> ShownRow(detailed_jobs[i])]
            first(r) == CHOOSE i \in 1..Len(shown) :
                            /\ shown[i] = df[r]
                            /\ \A j \in 1..(i - 1) : shown[j] # df[r]
        IN  /\ Distinct(df)
            /\ \A i \in 1..Len(shown) : \E r \in 1..Len(df) : df[r] = shown[i]
            /\ \A r \in 1..Len(df) : \E i \in 1..Len(shown) : df[r] = shown[i]
            /\ \A r, q \in 1..Len(df) : r < q => first(r) < first(q)

\* three rows, the third of which shows as the first does, differently
\* written: two rows are left, in the order of the input
C13_Witness ==
    /\ pc = "done"
    /\ Len(detailed_jobs) = 3
    /\ detailed_jobs[1] # detailed_jobs[3]
    /\ ShownRow(detailed_jobs[1]) = ShownRow(detailed_jobs[3])
    /\ ShownRow(detailed_jobs[1]) # ShownRow(detailed_jobs[2])
    /\ Len(df) = 2

\* C14: the cleaning is idempotent: run on a table it has produced, it
\* gives back that table, the same rows in the same order.
C14_CleaningIdempotent ==
    pc = "cleaned_again" => df = detailed_jobs

\* a table of two rows with a sentinel cell was cleaned a second time
C14_Witness ==
    /\ pc = "cleaned_again"
    /\ Len(df) = 2
    /\ \E r \in 1..Len(df) : df[r]["Company Name"] = NA

\* C15: the next-page URL is that of the first of the three strategies
\* (a.pagination-next, a.next, a[rel="next"]) that has a match, made
\* absolute; it is none exactly when none of the three matches, and only
\* then is the loop of line 113 left after a page was read.
C15_NoneOnlyWithoutMatch ==
    (pc \notin {"list_content", "crashed"} /\ navLog # <<>> /\ navLog[Len(navLog)].ok) =>
        LET links == site[navLog[Len(navLog)].url].links
            matched == <<links.pagination_next, links.next, links.rel_next>>
            none_matches == \A n \in 1..3 : ~matched[n].has
        IN  /\ next_page_url = NoUrl <=> none_matches
            /\ next_page_url # NoUrl =>
                  \E n \in 1..3 :
                      /\ matched[n].has
                      /\ \A m \in 1..(n - 1) : ~matched[m].has
                      /\ next_page_url = urljoin(BASE_URL, matched[n].val)

\* the record the claim gives a card: every field from the card's own
\* elements, the empty string where the element or its attribute is absent
OwnRecord(card) ==
    LET text(el) == IF el.has THEN GetText(<<>>, el.nodes) ELSE <<>>
        attr(el) == IF el.has /\ el.attr THEN Strip(el.val) ELSE <<>>
        absolute(ref) == IF ref # <<>> THEN urljoin(BASE_URL, ref) ELSE <<>>
    IN  [k \in SummaryKeys |->
            CASE k = "Job Title" -> text(card.title)
              [] k = "Company Name" -> text(card.company)
              [] k = "Job Detail URL" -> absolute(attr(card.apply))
              [] k = "Date Posted" -> attr(card.date)
              [] k = "Logo URL" -> absolute(attr(card.logo))]

\* the records of the cards of the pages navLog[1..n] loaded, in order
RECURSIVE OwnRecordsFrom(_)
OwnRecordsFrom(n) ==
    IF n = 0 THEN <<>>
    ELSE LET cards == site[navLog[n].url].cards
         IN  OwnRecordsFrom(n - 1) \o [i \in 1..Len(cards) |-> OwnRecord(cards[i])]

\* C16: the parser gives one record per card, in card order, each field
\* from the card's own elements and empty where absent: no title element
\* gives title "", and a card without a detail link of its own gets the
\* detail URL "" even when a later card of the page has a detail link.
C16_RecordsFromOwnCard ==
    (pc \notin {"list_content", "crashed"} /\ AllNavigationsOk) =>
        all_jobs = OwnRecordsFrom(Len(navLog))

\* C17: parse_job_details gives the default details (both empty) for an
\* absent or empty markup; otherwise, when the text of p#location begins
\* with "location:" in any letter case, the location is the stripped text
\* after that colon, and when it does not, the location is that text.
C17_LocationLabelRemoved ==
    (pc = "enrich" /\ fetched = <<"returned">>) =>
        LET html == received.html
            row == detailed_jobs[1]
            text == IF html.location.has THEN GetText(<<" ">>, html.location.nodes) ELSE <<>>
            labelled == /\ Len(text) >= Len(LocationLabel)
                        /\ \A n \in 1..Len(LocationLabel) :
                              LowerChar(text[n]) = LocationLabel[n]
        IN  IF html.null \/ html.empty
            THEN row["Location"] = <<>> /\ row["Job Description"] = <<>>
            ELSE row["Location"] =
                    IF labelled
                    THEN Strip(SubSeq(text, Len(LocationLabel) + 1, Len(text)))
                    ELSE text

\* "LOCATION: R: N" gave "R: N"
C17_Witness ==
    /\ pc = "enrich"
    /\ fetched = <<"returned">>
    /\ received.html.location = TextEl(<< <<"L", "O", "C", "A", "T", "I", "O", "N", ":", " ", "R", ":", " ", "N">> >>)
    /\ detailed_jobs[1]["Location"] = <<"R", ":", " ", "N">>

\* C18: on a site with finitely many list URLs the walker reaches DONE
\* whatever the next links are, as long as its navigations complete.  A
\* page shows the same next link at every visit and the walker keeps no
\* memory of the URLs it has read, so a walker that navigates to a URL a
\* second time goes round that cycle for as long as its navigations
\* succeed: reaching DONE on every such site means that no list URL is
\* ever navigated to twice.
C18_NoListUrlNavigatedTwice ==
    \A i, j \in 1..Len(navLog) : i < j => navLog[i].url # navLog[j].url

\* C19: in a call of fetch_detail_html a wait is taken after a failed
\* attempt exactly when another attempt follows: one before attempt 2 and
\* one before attempt 3, each between 1 and 5 seconds, the second not
\* shorter than the first; none after the attempt that returned and none
\* after the third failed attempt.
C19_BackoffBetweenAttempts ==
    /\ attempt >= 1 => Len(backoff) = attempt - 1
    /\ attempt = 0 => backoff = <<>>
    /\ \A n \in 1..Len(backoff) : 1 <= backoff[n] /\ backoff[n] <= 5
    /\ \A n, m \in 1..Len(backoff) : n < m => backoff[n] <= backoff[m]
    /\ received.kind = "return" => Len(backoff) = failures
    /\ received.kind = "raise" =>
          /\ failures = RETRY_ATTEMPTS
          /\ Len(backoff) = RETRY_ATTEMPTS - 1

\* a call gave up after its third failure with two waits taken, the
\* second the longer one
C19_Witness ==
    /\ pc = "enrich"
    /\ received.kind = "raise"
    /\ Len(backoff) = 2
    /\ backoff[1] < backoff[2]

\* C20: page_index starts at 1 and goes up by one each time a next link
\* is followed, so at every page.goto of a list page it is the number of
\* list navigations started so far; the sleep of line 138 is taken once
\* between two consecutive list navigations, and not when the loop is
\* left.
C20_PageIndexCountsNavigations ==
    /\ page_index >= 1
    /\ pc = "goto_list" =>
          /\ page_index = Len(navLog) + 1
          /\ pacing = Len(navLog)
    /\ pc # "goto_list" =>
          /\ page_index = Len(navLog)
          /\ pacing = Len(navLog) - 1

\* the walker left the loop after its second page, which had no next
\* link, with one sleep taken
C20_Witness ==
    /\ pc = "enrich"
    /\ Len(navLog) = 2
    /\ navLog[2].ok
    /\ next_page_url = NoUrl
    /\ page_index = 2
    /\ pacing = 1

====
